---- MODULE Spec2Model ----
(***************************************************************************)
(* go-ignore-cov: the annotation scanner, the collector's workers, the     *)
(* exclusion loop and the report writer of main.go, as state machines.     *)
(*                                                                         *)
(*   SpecScan     readInstructionsFromSourceFile, one source line per step *)
(*   Spec         one whole run of the Action of main(), followed by a     *)
(*                second run on the report the first one wrote             *)
(*   SpecApply    instructions applied to one profile                      *)
(*   SpecMatch    one iteration of the exclusion loop under a pattern set  *)
(*   SpecCollect  readIgnoreCoverageFromSourceDir, goroutine by goroutine  *)
(*   SpecCache    buildPackagePathCache and the exclusion loop's lookups   *)
(***************************************************************************)
EXTENDS Integers, Sequences, FiniteSets, TLC

VARIABLES
    \* --- readInstructionsFromSourceFile (SpecScan) ---
    srcLines,     \* the text of the file being scanned: a sequence of lines
    scanner,      \* the locals of the scan loop and what it returned
    \* --- the environment of a run (Spec) ---
    tree,         \* the .go files under the root: path -> text, or Unreadable
    flags,        \* --exclude-globs and --exclude-regex, as lists of entries,
                  \* and whether --ignore-empty is on the command line
    \* --- the Action of main() ---
    pc,           \* where main is
    round,        \* 1: the run on the input report; 2: the run on its own output
    exit,         \* "running", "ok" (nil returned), "error" (log.Fatal), "panic"
    errMsg,       \* which call's error the Action returned, "" if none
    patternMatcher,
    jobs,         \* the jobs channel: paths sent and not yet received
    jobsClosed,
    sent,         \* how many of the files the producer loop has sent
    workers,      \* per worker goroutine: "running" (at the range over jobs),
                  \* "sending" (at the send on results), "done" (wg.Done called)
    pending,      \* per worker: the record it is sending, as a sequence
    taken,        \* per worker: the paths it has received from jobs, in order
    results,      \* the results channel
    resultsClosed,
    ignoreCoverages,  \* what the collector loop has appended so far
    input,        \* the report as cover.ParseProfiles returned it
    profiles,     \* the same report, mutated in place by the exclusion loop
    packageCache,
    imported,     \* the directories build.Import was called with, in order
    idx,          \* the exclusion loop's position in profiles
    applied,      \* the instructions applied, in order (the verbose output)
    out,          \* the output file: NoFile, or the lines written to it
    writeErrs     \* how many Write calls of writeProfiles returned an error

scanVars == <<srcLines, scanner>>
envVars == <<tree, flags>>
collectVars == <<jobs, jobsClosed, sent, workers, pending, taken, results,
                 resultsClosed, ignoreCoverages>>
reportVars == <<input, profiles, packageCache, imported, idx, applied>>
outVars == <<out, writeErrs>>
runVars == <<pc, round, exit, errMsg, patternMatcher, collectVars, reportVars, outVars>>

vars == <<scanVars, envVars, runVars>>

(***************************************************************************)
(* Source text.  A line is a sequence of tokens; "sp" and "tab" are one    *)
(* character of white space each, "//" the comment marker,                 *)
(* "coverage:ignore" that literal, "file" "block" "foo" words of lowercase *)
(* letters, "File" a word that is not all lowercase, "code" any other      *)
(* text, and "toolong" a line longer than bufio.Scanner's buffer.          *)
(***************************************************************************)
InstructionBlock == "block"
InstructionFile == "file"
DefaultInstruction == InstructionBlock

LowerWords == {"file", "block", "foo"}

IsSpace(t) == t \in {"sp", "tab"}

\* strings.Contains(line, pat), on tokens
Contains(line, pat) ==
    \E i \in 0..(Len(line) - Len(pat)) :
        \A j \in 1..Len(pat) : line[i + j] = pat[j]

\* coverageIgnoreRegex.FindStringSubmatch(line): `//\s?coverage:ignore(\s([a-z]+))?$`.
\* The match is anchored at the end of the line, so it is decided by the line's
\* last tokens.  matches[2] is "" when the optional group took no part.
RegexHead(line, n) ==
    \* the n tokens before position Len(line)-k end with // \s? coverage:ignore
    /\ n >= 2
    /\ line[n] = "coverage:ignore"
    /\ \/ line[n - 1] = "//"
       \/ n >= 3 /\ IsSpace(line[n - 1]) /\ line[n - 2] = "//"

FindStringSubmatch(line) ==
    LET n == Len(line) IN
    IF RegexHead(line, n)
    THEN [len |-> 3, kw |-> ""]
    ELSE IF n >= 4 /\ line[n] \in LowerWords /\ IsSpace(line[n - 1])
            /\ RegexHead(line, n - 2)
         THEN [len |-> 3, kw |-> line[n]]
         ELSE [len |-> 0, kw |-> ""]

getInstructionFromLine(line) ==
    IF Contains(line, <<"//", "coverage:ignore">>)
       \/ Contains(line, <<"//", "sp", "coverage:ignore">>)
    THEN LET matches == FindStringSubmatch(line) IN
         IF matches.len = 3
         THEN IF matches.kw # ""
              THEN [instruction |-> matches.kw, ok |-> TRUE]
              ELSE [instruction |-> DefaultInstruction, ok |-> TRUE]
         ELSE [instruction |-> "", ok |-> FALSE]
    ELSE [instruction |-> "", ok |-> FALSE]

\* len(lineTxt) - len(strings.TrimLeft(lineTxt, "\t "))
RECURSIVE LeadingSpace(_)
LeadingSpace(line) ==
    IF line # <<>> /\ IsSpace(Head(line))
    THEN 1 + LeadingSpace(Tail(line))
    ELSE 0

IgnoreFileInstr == [kind |-> "IgnoreFile"]
IgnoreBlockInstr(l, c) == [kind |-> "IgnoreBlock", Line |-> l, Col |-> c]
PatternIgnoreInstr(by) == [kind |-> "PatternIgnore", MatchedBy |-> by]

(***************************************************************************)
(* readInstructionsFromSourceFile.  ScanInit is the state before the loop, *)
(* ScanStep one iteration of `for scanner.Scan()` on the line lineTxt,     *)
(* ScanEnd the code after the loop.  ret is "scanning" inside the loop,    *)
(* "ok" once (instructions, nil) was returned and "err" once an error was  *)
(* (errKw, errLine: the keyword and line the error message names).         *)
(***************************************************************************)
ScanInit ==
    [lineNumber |-> 1, pendingBlockInstruction |-> "", instructions |-> <<>>,
     ret |-> "scanning", errKw |-> "", errLine |-> 0]

\* ScanStep with an unknown keyword taken for a block instruction
ScanStepLenient(s, lineTxt) ==
    LET g == getInstructionFromLine(lineTxt) IN
    IF lineTxt = <<"toolong">>
    THEN [s EXCEPT !.instructions = <<>>, !.ret = "err"]
    ELSE IF g.ok
    THEN IF g.instruction = InstructionFile
         THEN [s EXCEPT !.instructions = Append(@, IgnoreFileInstr),
                        !.lineNumber = @ + 1]
         ELSE [s EXCEPT !.pendingBlockInstruction = InstructionBlock,
                        !.lineNumber = @ + 1]
    ELSE IF s.pendingBlockInstruction # ""
         THEN [s EXCEPT !.instructions =
                           Append(@, IgnoreBlockInstr(s.lineNumber,
                                                      LeadingSpace(lineTxt) + 1)),
                        !.pendingBlockInstruction = "",
                        !.lineNumber = @ + 1]
         ELSE [s EXCEPT !.lineNumber = @ + 1]

\* ScanStep with the pending marker resolved by whatever line comes next, an
\* instruction comment included
ScanStepAnyNextLine(s, lineTxt) ==
    LET g == getInstructionFromLine(lineTxt)
        resolved == IF s.pendingBlockInstruction # ""
                    THEN Append(s.instructions,
                                IgnoreBlockInstr(s.lineNumber, LeadingSpace(lineTxt) + 1))
                    ELSE s.instructions
    IN
    IF lineTxt = <<"toolong">>
    THEN [s EXCEPT !.instructions = <<>>, !.ret = "err"]
    ELSE IF g.ok
    THEN IF g.instruction = InstructionFile
         THEN [s EXCEPT !.instructions = Append(resolved, IgnoreFileInstr),
                        !.pendingBlockInstruction = "",
                        !.lineNumber = @ + 1]
         ELSE IF g.instruction = InstructionBlock
         THEN [s EXCEPT !.instructions = resolved,
                        !.pendingBlockInstruction = g.instruction,
                        !.lineNumber = @ + 1]
         ELSE [s EXCEPT !.instructions = <<>>, !.ret = "err",
                        !.errKw = g.instruction, !.errLine = s.lineNumber]
    ELSE [s EXCEPT !.instructions = resolved,
                   !.pendingBlockInstruction = "",
                   !.lineNumber = @ + 1]

ScanStep(s, lineTxt) ==
    LET g == getInstructionFromLine(lineTxt) IN
    IF lineTxt = <<"toolong">>
    THEN \* scanner.Scan() returns false, scanner.Err() is ErrTooLong
         [s EXCEPT !.instructions = <<>>, !.ret = "err"]
    ELSE IF g.ok
    THEN IF g.instruction = InstructionFile
         THEN [s EXCEPT !.instructions = Append(@, IgnoreFileInstr),
                        !.lineNumber = @ + 1]
         ELSE IF g.instruction = InstructionBlock
         THEN [s EXCEPT !.pendingBlockInstruction = g.instruction,
                        !.lineNumber = @ + 1]
         ELSE [s EXCEPT !.instructions = <<>>, !.ret = "err",
                        !.errKw = g.instruction, !.errLine = s.lineNumber]
    ELSE IF s.pendingBlockInstruction # ""
         THEN [s EXCEPT !.instructions =
                           Append(@, IgnoreBlockInstr(s.lineNumber,
                                                      LeadingSpace(lineTxt) + 1)),
                        !.pendingBlockInstruction = "",
                        !.lineNumber = @ + 1]
         ELSE [s EXCEPT !.lineNumber = @ + 1]

\* ScanEnd with a marker still pending at the end of input made an error
ScanEndPendingFails(s) ==
    IF s.pendingBlockInstruction # ""
    THEN [s EXCEPT !.instructions = <<>>, !.ret = "err"]
    ELSE [s EXCEPT !.ret = "ok"]

ScanEnd(s) == [s EXCEPT !.ret = "ok"]

\* The whole function on a file's text: what a worker gets back.
RECURSIVE ScanFrom(_, _)
ScanFrom(s, rest) ==
    IF s.ret # "scanning" THEN s
    ELSE IF rest = <<>> THEN ScanEnd(s)
    ELSE ScanFrom(ScanStep(s, Head(rest)), Tail(rest))

readInstructionsFromSourceFile(text) == ScanFrom(ScanInit, text)

(***************************************************************************)
(* SpecScan: the scanner on every file of at most MaxLines lines drawn     *)
(* from LineTexts.                                                         *)
(***************************************************************************)
MaxLines == 3

LineTexts ==
    { <<>>,
      <<"code">>,
      <<"sp", "code">>,
      <<"tab", "sp", "code">>,
      <<"//", "coverage:ignore">>,
      <<"sp", "//", "sp", "coverage:ignore">>,
      <<"sp", "code", "//", "coverage:ignore">>,
      <<"//", "coverage:ignore", "sp", "file">>,
      <<"tab", "//", "sp", "coverage:ignore", "sp", "file">>,
      <<"//", "coverage:ignore", "sp", "block">>,
      <<"//", "coverage:ignore", "sp", "foo">>,
      <<"//", "coverage:ignore", "sp", "File">>,
      <<"//", "coverage:ignore", "sp", "file", "sp", "code">>,
      <<"//", "tab", "coverage:ignore">>,
      <<"toolong">> }

SeqsUpTo(S, n) == UNION { [1..k -> S] : k \in 0..n }

\* no collection under way: no channel, no worker
NoPool ==
    /\ jobs = <<>> /\ jobsClosed = FALSE /\ sent = 0
    /\ workers = <<>> /\ pending = <<>> /\ taken = <<>>
    /\ results = <<>> /\ resultsClosed = FALSE

\* the variables of a run, while only the scanner is looked at
RunIdle ==
    /\ tree = <<>> /\ flags = <<>>
    /\ pc = "idle" /\ round = 0 /\ exit = "running" /\ errMsg = ""
    /\ patternMatcher = <<>>
    /\ NoPool
    /\ ignoreCoverages = <<>>
    /\ input = <<>> /\ profiles = <<>> /\ packageCache = <<>> /\ idx = 0
    /\ imported = <<>>
    /\ applied = <<>> /\ out = <<>> /\ writeErrs = 0

InitScan ==
    /\ srcLines \in SeqsUpTo(LineTexts, MaxLines)
    /\ scanner = ScanInit
    /\ RunIdle

ScanLine ==
    /\ scanner.ret = "scanning"
    /\ scanner.lineNumber <= Len(srcLines)
    /\ scanner' = ScanStep(scanner, srcLines[scanner.lineNumber])
    /\ UNCHANGED <<srcLines, envVars, runVars>>

ScanReturn ==
    /\ scanner.ret = "scanning"
    /\ scanner.lineNumber > Len(srcLines)
    /\ scanner' = ScanEnd(scanner)
    /\ UNCHANGED <<srcLines, envVars, runVars>>

NextScan == ScanLine \/ ScanReturn

SpecScan == InitScan /\ [][NextScan]_vars

(***************************************************************************)
(* Instructions applied to a profile.  A block is a record StartLine,      *)
(* StartCol, EndLine, EndCol, NumStmt, Count (cover.ProfileBlock); a       *)
(* profile is a record FileName, Mode, Blocks (cover.Profile).             *)
(***************************************************************************)
PosFactor == 100000

\* IgnoreBlock.UpdateProfile with the end of the range taken in (<= for <)
IgnoreBlockEndInclusive(ig, profile) ==
    LET igPos == ig.Line * PosFactor + ig.Col
        upd(block) ==
            LET blockStart == block.StartLine * PosFactor + block.StartCol
                blockEnd == block.EndLine * PosFactor + block.EndCol
            IN  IF igPos >= blockStart /\ igPos <= blockEnd /\ block.Count = 0
                THEN [block EXCEPT !.Count = 1]
                ELSE block
    IN  [profile EXCEPT !.Blocks = [i \in 1..Len(@) |-> upd(@[i])]]

\* IgnoreBlock.UpdateProfile with four digits for the column ("%d%04d")
IgnoreBlockFourDigits(ig, profile) ==
    LET igPos == ig.Line * 10000 + ig.Col
        upd(block) ==
            LET blockStart == block.StartLine * 10000 + block.StartCol
                blockEnd == block.EndLine * 10000 + block.EndCol
            IN  IF igPos >= blockStart /\ igPos < blockEnd /\ block.Count = 0
                THEN [block EXCEPT !.Count = 1]
                ELSE block
    IN  [profile EXCEPT !.Blocks = [i \in 1..Len(@) |-> upd(@[i])]]

IgnoreBlockUpdateProfile(ig, profile) ==
    LET igPos == ig.Line * PosFactor + ig.Col
        upd(block) ==
            LET blockStart == block.StartLine * PosFactor + block.StartCol
                blockEnd == block.EndLine * PosFactor + block.EndCol
            IN  IF igPos >= blockStart /\ igPos < blockEnd /\ block.Count = 0
                THEN [block EXCEPT !.Count = 1]
                ELSE block
    IN  [profile EXCEPT !.Blocks = [i \in 1..Len(@) |-> upd(@[i])]]

\* IgnoreFile.UpdateProfile with every count raised by one
IgnoreFileIncrement(profile) ==
    [profile EXCEPT !.Blocks = [i \in 1..Len(@) |-> [@[i] EXCEPT !.Count = @ + 1]]]

IgnoreFileUpdateProfile(profile) ==
    [profile EXCEPT !.Blocks =
        [i \in 1..Len(@) |-> IF @[i].Count = 0 THEN [@[i] EXCEPT !.Count = 1]
                                              ELSE @[i]]]

\* PatternIgnore.UpdateProfile with the uncovered blocks taken out of the
\* profile instead of marked
PatternIgnoreDeletesBlocks(profile) ==
    [profile EXCEPT !.Blocks = SelectSeq(@, LAMBDA block : block.Count # 0)]

PatternIgnoreUpdateProfile(profile) ==
    [profile EXCEPT !.Blocks =
        [i \in 1..Len(@) |-> IF @[i].Count = 0 THEN [@[i] EXCEPT !.Count = 1]
                                              ELSE @[i]]]

\* instruction.UpdateProfile(profile, verbose): the interface's dispatch
UpdateProfile(instruction, profile) ==
    CASE instruction.kind = "IgnoreBlock" -> IgnoreBlockUpdateProfile(instruction, profile)
      [] instruction.kind = "IgnoreFile" -> IgnoreFileUpdateProfile(profile)
      [] instruction.kind = "PatternIgnore" -> PatternIgnoreUpdateProfile(profile)

RECURSIVE updateProfileFromIgnoreCoverages(_, _)
updateProfileFromIgnoreCoverages(profile, instructions) ==
    IF instructions = <<>> THEN profile
    ELSE updateProfileFromIgnoreCoverages(UpdateProfile(Head(instructions), profile),
                                          Tail(instructions))

(***************************************************************************)
(* Paths are sequences of segments; an absolute path starts with the       *)
(* segment "/".  A report's FileName is an import path (module m).         *)
(***************************************************************************)
Root == <<"/", "r">>

IsAbs(path) == path # <<>> /\ Head(path) = "/"

\* filepath.Split: the directory and the last element
SplitDir(path) == SubSeq(path, 1, Len(path) - 1)
SplitFile(path) == path[Len(path)]

\* filepath.Rel(root, target); ok = FALSE is its error (a relative target
\* cannot be made relative to an absolute root).  Targets under the root
\* are all that the walk and the resolver produce here.
FilepathRel(root, target) ==
    IF IsAbs(target) /\ Len(target) >= Len(root)
       /\ SubSeq(target, 1, Len(root)) = root
    THEN [ok |-> TRUE, path |-> SubSeq(target, Len(root) + 1, Len(target))]
    ELSE [ok |-> FALSE, path |-> <<>>]

\* doublestar.Match(pattern, path), segment by segment: "**" takes any number
\* of segments, "*" exactly one, any other segment itself
RECURSIVE DoublestarMatch(_, _)
DoublestarMatch(pattern, path) ==
    IF pattern = <<>> THEN path = <<>>
    ELSE IF Head(pattern) = "**"
    THEN \/ DoublestarMatch(Tail(pattern), path)
         \/ path # <<>> /\ DoublestarMatch(pattern, Tail(path))
    ELSE /\ path # <<>>
         /\ Head(pattern) \in {"*", Head(path)}
         /\ DoublestarMatch(Tail(pattern), Tail(path))

\* regex.MatchString(path) for the patterns of the README's shape `/seg/`:
\* the path holds the segment seg with a separator on both sides
RegexMatchString(regex, path) ==
    \E i \in 2..(Len(path) - 1) : path[i] = regex.seg

\* strings.Split, TrimSpace and the `pattern != ""` test leave the entries
\* that are not empty; Empty is an entry that trims to "".
Empty == [empty |-> TRUE]
Glob(pattern) == [empty |-> FALSE, pattern |-> pattern]
Regex(seg) == [empty |-> FALSE, seg |-> seg, valid |-> TRUE]
InvalidRegex == [empty |-> FALSE, seg |-> "(", valid |-> FALSE]

RECURSIVE NonEmpty(_)
NonEmpty(entries) ==
    IF entries = <<>> THEN <<>>
    ELSE IF Head(entries).empty THEN NonEmpty(Tail(entries))
    ELSE <<Head(entries)>> \o NonEmpty(Tail(entries))

\* var patternMatcher *PatternMatcher
NilMatcher == [nil |-> TRUE, GlobPatterns |-> <<>>, RegexPatterns |-> <<>>, Root |-> <<>>]

\* buildPatternMatcher with a pattern regexp.Compile rejects left out of the
\* matcher instead of returned as an error
buildPatternMatcherSkipsInvalid(globPatterns, regexPatterns, root) ==
    [err |-> FALSE,
     matcher |-> [nil |-> FALSE,
                  GlobPatterns |-> NonEmpty(globPatterns),
                  RegexPatterns |-> SelectSeq(NonEmpty(regexPatterns),
                                              LAMBDA x : x.valid),
                  Root |-> root]]

\* buildPatternMatcher: err names the first pattern regexp.Compile rejects
buildPatternMatcher(globPatterns, regexPatterns, root) ==
    LET regexes == NonEmpty(regexPatterns)
        bad == { i \in 1..Len(regexes) : ~regexes[i].valid }
    IN  IF bad # {}
        THEN [err |-> TRUE, matcher |-> NilMatcher]
        ELSE [err |-> FALSE,
              matcher |-> [nil |-> FALSE,
                           GlobPatterns |-> NonEmpty(globPatterns),
                           RegexPatterns |-> regexes,
                           Root |-> root]]

\* MatchesFile with the regex loop before the glob loop
MatchesFileRegexFirst(pm, absolutePath) ==
    LET rel == FilepathRel(pm.Root, absolutePath)
        relPath == IF rel.ok THEN rel.path ELSE absolutePath
        globHits == { i \in 1..Len(pm.GlobPatterns) :
                        \/ DoublestarMatch(pm.GlobPatterns[i].pattern, relPath)
                        \/ DoublestarMatch(pm.GlobPatterns[i].pattern, absolutePath) }
        regexHits == { i \in 1..Len(pm.RegexPatterns) :
                        \/ RegexMatchString(pm.RegexPatterns[i], absolutePath)
                        \/ RegexMatchString(pm.RegexPatterns[i], relPath) }
        first(S) == CHOOSE i \in S : \A j \in S : i <= j
    IN  IF regexHits # {}
        THEN [matches |-> TRUE,
              matchedBy |-> [rule |-> "regex pattern", index |-> first(regexHits)]]
        ELSE IF globHits # {}
        THEN [matches |-> TRUE,
              matchedBy |-> [rule |-> "glob pattern", index |-> first(globHits)]]
        ELSE [matches |-> FALSE, matchedBy |-> [rule |-> "", index |-> 0]]

\* PatternMatcher.MatchesFile: the first rule that matches, globs first
MatchesFile(pm, absolutePath) ==
    LET rel == FilepathRel(pm.Root, absolutePath)
        relPath == IF rel.ok THEN rel.path ELSE absolutePath
        globHits == { i \in 1..Len(pm.GlobPatterns) :
                        \/ DoublestarMatch(pm.GlobPatterns[i].pattern, relPath)
                        \/ DoublestarMatch(pm.GlobPatterns[i].pattern, absolutePath) }
        regexHits == { i \in 1..Len(pm.RegexPatterns) :
                        \/ RegexMatchString(pm.RegexPatterns[i], absolutePath)
                        \/ RegexMatchString(pm.RegexPatterns[i], relPath) }
        first(S) == CHOOSE i \in S : \A j \in S : i <= j
    IN  IF globHits # {}
        THEN [matches |-> TRUE,
              matchedBy |-> [rule |-> "glob pattern", index |-> first(globHits)]]
        ELSE IF regexHits # {}
        THEN [matches |-> TRUE,
              matchedBy |-> [rule |-> "regex pattern", index |-> first(regexHits)]]
        ELSE [matches |-> FALSE, matchedBy |-> [rule |-> "", index |-> 0]]

\* resolveFileWithCache
resolveFileWithCache(packagePath, cache) ==
    LET dir == SplitDir(packagePath)
        file == SplitFile(packagePath)
    IN  IF dir \in DOMAIN cache THEN Append(cache[dir], file) ELSE packagePath

\* build.Import(dir, ".", build.FindOnly) when it succeeds: the directory of
\* package m/<p> is <Root>/<p>
ImportDir(dir) == Root \o Tail(dir)

\* buildIgnoreCoverageMap: the last record of a path wins
buildIgnoreCoverageMap(ignores) ==
    [path \in { ignores[i].Filepath : i \in 1..Len(ignores) } |->
        LET last == CHOOSE i \in 1..Len(ignores) :
                        /\ ignores[i].Filepath = path
                        /\ \A j \in 1..Len(ignores) :
                              ignores[j].Filepath = path => j <= i
        IN  ignores[last]]

(***************************************************************************)
(* The report file.  A line is the header [mode] or a block line           *)
(* [FileName, block]; writeProfiles formats, cover.ParseProfiles parses.   *)
(***************************************************************************)
HeaderLine(mode) == [header |-> TRUE, mode |-> mode]
BlockLine(name, block) == [header |-> FALSE, FileName |-> name, block |-> block]

RECURSIVE ProfileLines(_)
ProfileLines(ps) ==
    IF ps = <<>> THEN <<>>
    ELSE [i \in 1..Len(Head(ps).Blocks) |->
              BlockLine(Head(ps).FileName, Head(ps).Blocks[i])]
         \o ProfileLines(Tail(ps))

\* the Write calls of writeProfiles, in order (profiles is not empty)
WriteCalls(ps) == <<HeaderLine(ps[1].Mode)>> \o ProfileLines(ps)

\* what reaches the file when the calls in `failed` return an error
RECURSIVE Written(_, _, _)
Written(calls, i, failed) ==
    IF i > Len(calls) THEN <<>>
    ELSE (IF i \in failed THEN <<>> ELSE <<calls[i]>>)
         \o Written(calls, i + 1, failed)

\* cover.ParseProfiles: the mode of the first line, then one profile per file
\* name with its blocks.  The lines of a report this tool wrote are already
\* in the parser's order (by file name, then by position), which it keeps.
RECURSIVE FileNamesOf(_)
FileNamesOf(lines) ==
    IF lines = <<>> THEN <<>>
    ELSE LET name == Head(lines).FileName
             other(n) == n # name
         IN  <<name>> \o SelectSeq(FileNamesOf(Tail(lines)), other)

RECURSIVE BlocksOf(_, _)
BlocksOf(lines, name) ==
    IF lines = <<>> THEN <<>>
    ELSE (IF Head(lines).FileName = name THEN <<Head(lines).block>> ELSE <<>>)
         \o BlocksOf(Tail(lines), name)

ParseProfiles(lines) ==
    IF lines = <<>>
    THEN \* no line at all: no mode line to reject, and no profile
         [err |-> FALSE, profiles |-> <<>>]
    ELSE IF ~Head(lines).header \/ \E i \in 2..Len(lines) : lines[i].header
    THEN [err |-> TRUE, profiles |-> <<>>]
    ELSE LET body == Tail(lines)
             names == FileNamesOf(body)
         IN  [err |-> FALSE,
              profiles |-> [i \in 1..Len(names) |->
                               [FileName |-> names[i],
                                Mode |-> Head(lines).mode,
                                Blocks |-> BlocksOf(body, names[i])]]]

(***************************************************************************)
(* Spec: a run of the Action of main() on a source tree of two files, and  *)
(* then a second run, with the same tree and flags, on the report the      *)
(* first run wrote.                                                        *)
(***************************************************************************)
NumWorkers == 1
MaxTreeLines == 2
MaxWriteErrs == 1

\* a file: its lines, or one that cannot be opened or does not exist
File(lines) == [ok |-> TRUE, lines |-> lines]
NoFile == [ok |-> FALSE, lines |-> <<>>]

PathA == Root \o <<"pkg", "a.go">>
PathB == Root \o <<"pkg", "b.go">>
NameA == <<"m", "pkg", "a.go">>
NameB == <<"m", "pkg", "b.go">>

\* filepath.WalkDir visits in lexical order
goFiles == <<PathA, PathB>>
TreePaths == {PathA, PathB}

TreeLineTexts ==
    { <<"sp", "code">>,
      <<"//", "coverage:ignore">>,
      <<"//", "coverage:ignore", "sp", "file">>,
      <<"//", "coverage:ignore", "sp", "foo">> }

\* a.go has up to MaxTreeLines lines, b.go one
TreeTextsA == SeqsUpTo(TreeLineTexts, MaxTreeLines) \ {<<>>}
TreeTextsB == { <<l>> : l \in TreeLineTexts }
Trees ==
    { [path \in TreePaths |-> IF path = PathA THEN a ELSE b] :
        a \in { File(t) : t \in TreeTextsA } \cup {NoFile},
        b \in { File(t) : t \in TreeTextsB } \cup {NoFile} }

\* --exclude-globs / --exclude-regex: unset; a glob for a.go; the regex /pkg/
\* after an empty entry; a regex that does not compile.  --ignore-empty, the
\* flag the README documents: absent, or given with no patterns.
FlagChoices ==
    { [globs |-> <<>>, regexes |-> <<>>, ignoreEmpty |-> FALSE],
      [globs |-> <<Glob(<<"**", "a.go">>)>>, regexes |-> <<>>, ignoreEmpty |-> FALSE],
      [globs |-> <<>>, regexes |-> <<Empty, Regex("pkg")>>, ignoreEmpty |-> FALSE],
      [globs |-> <<>>, regexes |-> <<InvalidRegex>>, ignoreEmpty |-> FALSE],
      [globs |-> <<>>, regexes |-> <<>>, ignoreEmpty |-> TRUE] }

\* the flags of cli.App: file, output, root, verbose, exclude-globs,
\* exclude-regex; whether the command line has only flags among them
DefinedFlags(fl) == ~fl.ignoreEmpty

\* The input report: any of a.go, with blocks at lines 1-3 (one statement)
\* and 3-4 (none), counts of 0 or 2, and b.go, with an uncovered block at 1-3.
Counts == {0, 2}
BlockP1(c) == [StartLine |-> 1, StartCol |-> 1, EndLine |-> 3, EndCol |-> 1,
               NumStmt |-> 1, Count |-> c]
BlockP2(c) == [StartLine |-> 3, StartCol |-> 1, EndLine |-> 4, EndCol |-> 2,
               NumStmt |-> 0, Count |-> c]
BlockListsA == { <<BlockP1(c), BlockP2(d)>> : c \in Counts, d \in Counts }
BlockListsB == { <<BlockP1(0)>> }
Profile(name, blocks) == [FileName |-> name, Mode |-> "count", Blocks |-> blocks]
InputProfiles ==
    {<<>>}
    \cup { <<Profile(NameA, a)>> : a \in BlockListsA }
    \cup { <<Profile(NameB, b)>> : b \in BlockListsB }
    \cup { <<Profile(NameA, a), Profile(NameB, b)>> :
              a \in BlockListsA, b \in BlockListsB }
InputReports ==
    { File(<<HeaderLine("count")>> \o ProfileLines(ps)) : ps \in InputProfiles }

\* bytes.Contains(content, []byte("coverage:ignore"))
ContainsIgnore(content) ==
    \E i \in 1..Len(content) : Contains(content[i], <<"coverage:ignore">>)

\* WorkerOnJob with `return` where the code has `continue` after a failed read
WorkerOnJobReturn(path) ==
    LET content == tree[path].lines IN
    IF ~tree[path].ok
    THEN [send |-> <<>>, continue |-> FALSE]
    ELSE IF ~ContainsIgnore(content)
    THEN [send |-> <<>>, continue |-> TRUE]
    ELSE LET r == readInstructionsFromSourceFile(content) IN
         IF r.ret = "ok" /\ Len(r.instructions) > 0
         THEN [send |-> <<[Filepath |-> path, Instructions |-> r.instructions]>>,
               continue |-> TRUE]
         ELSE [send |-> <<>>, continue |-> TRUE]

\* WorkerOnJob without the `len(instructions) > 0` test before the send
WorkerOnJobSendsEmpty(path) ==
    LET content == tree[path].lines IN
    IF ~tree[path].ok
    THEN [send |-> <<>>, continue |-> TRUE]
    ELSE IF ~ContainsIgnore(content)
    THEN [send |-> <<>>, continue |-> TRUE]
    ELSE LET r == readInstructionsFromSourceFile(content) IN
         IF r.ret = "err"
         THEN [send |-> <<>>, continue |-> TRUE]
         ELSE [send |-> <<[Filepath |-> path, Instructions |-> r.instructions]>>,
               continue |-> TRUE]

\* One iteration of a worker's `for path := range jobs`: what it sends on
\* results (at most one record), and whether it goes on to the next job.
WorkerOnJob(path) ==
    LET content == tree[path].lines IN
    IF ~tree[path].ok
    THEN [send |-> <<>>, continue |-> TRUE]
    ELSE IF ~ContainsIgnore(content)
    THEN [send |-> <<>>, continue |-> TRUE]
    ELSE LET r == readInstructionsFromSourceFile(content) IN
         IF r.ret = "err"
         THEN [send |-> <<>>, continue |-> TRUE]
         ELSE IF Len(r.instructions) > 0
         THEN [send |-> <<[Filepath |-> path, Instructions |-> r.instructions]>>,
               continue |-> TRUE]
         ELSE [send |-> <<>>, continue |-> TRUE]

ScanIdle == srcLines = <<>> /\ scanner = ScanInit

Init ==
    /\ ScanIdle
    /\ tree \in Trees
    /\ flags \in FlagChoices
    /\ pc = "args" /\ round = 1 /\ exit = "running" /\ errMsg = ""
    /\ patternMatcher = NilMatcher
    /\ NoPool /\ ignoreCoverages = <<>>
    /\ input = <<>> /\ profiles = <<>> /\ packageCache = <<>> /\ idx = 0
    /\ imported = <<>>
    /\ applied = <<>> /\ out = NoFile /\ writeErrs = 0

\* app.Run(os.Args): a flag the App does not define is an error ("flag
\* provided but not defined"), the Action does not run, log.Fatal(err)
ParseArgs ==
    /\ pc = "args"
    /\ IF DefinedFlags(flags)
       THEN pc' = "start" /\ UNCHANGED <<exit, errMsg>>
       ELSE /\ exit' = "error" /\ pc' = "exit"
            /\ errMsg' = "flag provided but not defined"
    /\ UNCHANGED <<scanVars, envVars, round, patternMatcher, collectVars,
                   reportVars, outVars>>

\* main, Action: the pattern matcher from the flags
BuildMatcher ==
    /\ pc = "start"
    /\ IF flags.globs # <<>> \/ flags.regexes # <<>>
       THEN LET r == buildPatternMatcher(flags.globs, flags.regexes, Root) IN
            IF r.err
            THEN /\ exit' = "error" /\ pc' = "exit"
                 /\ errMsg' = "error building pattern matcher"
                 /\ UNCHANGED patternMatcher
            ELSE /\ patternMatcher' = r.matcher /\ pc' = "walk"
                 /\ UNCHANGED <<exit, errMsg>>
       ELSE /\ patternMatcher' = NilMatcher /\ pc' = "walk"
            /\ UNCHANGED <<exit, errMsg>>
    /\ UNCHANGED <<scanVars, envVars, round, collectVars, reportVars, outVars>>

\* filepath.WalkDir(root, ...): the .go files of the tree, in lexical order
WalkDir(t) == SelectSeq(goFiles, LAMBDA path : path \in DOMAIN t)

\* make(chan string, len(goFiles)), make(chan IgnoreCoverage, len(goFiles))
ChanCap(files) == Len(files)

\* readIgnoreCoverageFromSourceDir up to the producer loop: the walk, the
\* channels made, the workers started
Walk ==
    /\ pc = "walk"
    /\ \/ /\ jobs' = <<>> /\ jobsClosed' = FALSE /\ sent' = 0
          /\ workers' = [w \in 1..NumWorkers |-> "running"]
          /\ pending' = [w \in 1..NumWorkers |-> <<>>]
          /\ taken' = [w \in 1..NumWorkers |-> <<>>]
          /\ results' = <<>> /\ resultsClosed' = FALSE /\ ignoreCoverages' = <<>>
          /\ pc' = "send"
          /\ UNCHANGED <<exit, errMsg>>
       \/ \* filepath.WalkDir failed
          /\ exit' = "error" /\ pc' = "exit" /\ errMsg' = "walk"
          /\ UNCHANGED collectVars
    /\ UNCHANGED <<scanVars, envVars, round, patternMatcher, reportVars, outVars>>

\* jobs <- file, which blocks while the channel is full
SendJob ==
    /\ pc = "send" /\ sent < Len(WalkDir(tree))
    /\ Len(jobs) < ChanCap(WalkDir(tree))
    /\ jobs' = Append(jobs, WalkDir(tree)[sent + 1])
    /\ sent' = sent + 1
    /\ UNCHANGED <<scanVars, envVars, pc, round, exit, errMsg, patternMatcher,
                   jobsClosed, workers, pending, taken, results, resultsClosed,
                   ignoreCoverages, reportVars, outVars>>

\* CloseJobs with the close left out
CloseJobsForgotten ==
    /\ pc = "send" /\ sent = Len(WalkDir(tree))
    /\ pc' = "collect"
    /\ UNCHANGED <<scanVars, envVars, round, exit, errMsg, patternMatcher,
                   collectVars, reportVars, outVars>>

\* close(jobs); main goes on to start the goroutine that waits for the
\* workers and to the loop over results
CloseJobs ==
    /\ pc = "send" /\ sent = Len(WalkDir(tree))
    /\ jobsClosed' = TRUE
    /\ pc' = "collect"
    /\ UNCHANGED <<scanVars, envVars, round, exit, errMsg, patternMatcher,
                   jobs, sent, workers, pending, taken, results, resultsClosed,
                   ignoreCoverages, reportVars, outVars>>

\* a worker receives a path and works on it, up to its send on results
Worker(w) ==
    /\ pc \in {"send", "collect"} /\ workers[w] = "running" /\ jobs # <<>>
    /\ LET r == WorkerOnJob(Head(jobs)) IN
          /\ jobs' = Tail(jobs)
          /\ taken' = [taken EXCEPT ![w] = Append(@, Head(jobs))]
          /\ pending' = [pending EXCEPT ![w] = r.send]
          /\ workers' = [workers EXCEPT ![w] =
                            IF r.send # <<>> THEN "sending"
                            ELSE IF r.continue THEN "running" ELSE "done"]
    /\ UNCHANGED <<scanVars, envVars, pc, round, exit, errMsg, patternMatcher,
                   jobsClosed, sent, results, resultsClosed, ignoreCoverages,
                   reportVars, outVars>>

\* results <- IgnoreCoverage{...}, which blocks while the channel is full
WorkerSend(w) ==
    /\ pc \in {"send", "collect"} /\ workers[w] = "sending"
    /\ Len(results) < ChanCap(WalkDir(tree))
    /\ results' = results \o pending[w]
    /\ pending' = [pending EXCEPT ![w] = <<>>]
    /\ workers' = [workers EXCEPT ![w] = "running"]
    /\ UNCHANGED <<scanVars, envVars, pc, round, exit, errMsg, patternMatcher,
                   jobs, jobsClosed, sent, taken, resultsClosed, ignoreCoverages,
                   reportVars, outVars>>

\* the range loop ends on the closed, drained channel: wg.Done()
WorkerExit(w) ==
    /\ pc \in {"send", "collect"} /\ workers[w] = "running"
    /\ jobs = <<>> /\ jobsClosed
    /\ workers' = [workers EXCEPT ![w] = "done"]
    /\ UNCHANGED <<scanVars, envVars, pc, round, exit, errMsg, patternMatcher,
                   jobs, jobsClosed, sent, pending, taken, results, resultsClosed,
                   ignoreCoverages, reportVars, outVars>>

\* CloseResults without the wg.Wait()
CloseResultsNoWait ==
    /\ pc = "collect" /\ ~resultsClosed
    /\ resultsClosed' = TRUE
    /\ UNCHANGED <<scanVars, envVars, pc, round, exit, errMsg, patternMatcher,
                   jobs, jobsClosed, sent, workers, pending, taken, results,
                   ignoreCoverages, reportVars, outVars>>

\* go func() { wg.Wait(); close(results) }()
CloseResults ==
    /\ pc = "collect" /\ ~resultsClosed
    /\ \A w \in 1..NumWorkers : workers[w] = "done"
    /\ resultsClosed' = TRUE
    /\ UNCHANGED <<scanVars, envVars, pc, round, exit, errMsg, patternMatcher,
                   jobs, jobsClosed, sent, workers, pending, taken, results,
                   ignoreCoverages, reportVars, outVars>>

\* for ignore := range results
Collect ==
    /\ pc = "collect" /\ results # <<>>
    /\ ignoreCoverages' = Append(ignoreCoverages, Head(results))
    /\ results' = Tail(results)
    /\ UNCHANGED <<scanVars, envVars, pc, round, exit, errMsg, patternMatcher,
                   jobs, jobsClosed, sent, workers, pending, taken, resultsClosed,
                   reportVars, outVars>>

\* the loop over results ends on the closed, drained channel and the function
\* returns ignores: its channels and goroutines are no more
CollectEnd ==
    /\ pc = "collect" /\ results = <<>> /\ resultsClosed
    /\ pc' = "parse"
    /\ jobs' = <<>> /\ jobsClosed' = FALSE /\ sent' = 0
    /\ workers' = <<>> /\ pending' = <<>> /\ taken' = <<>>
    /\ results' = <<>> /\ resultsClosed' = FALSE
    /\ UNCHANGED <<scanVars, envVars, round, exit, errMsg, patternMatcher,
                   ignoreCoverages, reportVars, outVars>>

\* cover.ParseProfiles(coverageFile): of the input report in the first run,
\* of the first run's output in the second
Parse ==
    /\ pc = "parse"
    /\ \E file \in IF round = 1 THEN InputReports \cup {NoFile} ELSE {out} :
          LET r == IF ~file.ok THEN [err |-> TRUE, profiles |-> <<>>]
                   ELSE ParseProfiles(file.lines)
          IN  IF r.err
              THEN /\ exit' = "error" /\ pc' = "exit" /\ errMsg' = "parse"
                   /\ UNCHANGED <<input, profiles>>
              ELSE /\ input' = r.profiles /\ profiles' = r.profiles
                   /\ pc' = "cache"
                   /\ UNCHANGED <<exit, errMsg>>
    /\ UNCHANGED <<scanVars, envVars, round, patternMatcher, collectVars,
                   packageCache, imported, idx, applied, outVars>>

\* buildPackagePathCache: each directory of the report resolved once; a
\* directory build.Import fails on keeps its own path.  The second run meets
\* the same packages as the first.
UniqueDirs == { SplitDir(profiles[i].FileName) : i \in 1..Len(profiles) }

\* ImportArgs with build.Import called in the loop over the profiles
ImportArgsPerProfile(profs) ==
    [i \in 1..Len(profs) |-> SplitDir(profs[i].FileName)]

\* the arguments of the build.Import calls: the keys of uniqueDirs, each
\* once, here in the order the profiles first name them
RECURSIVE ImportArgs(_)
ImportArgs(profs) ==
    IF profs = <<>> THEN <<>>
    ELSE LET rest == ImportArgs(SubSeq(profs, 1, Len(profs) - 1))
             dir == SplitDir(profs[Len(profs)].FileName)
         IN  IF \E k \in 1..Len(rest) : rest[k] = dir THEN rest
             ELSE Append(rest, dir)

\* the orders `for dir := range uniqueDirs` may take: a map's range order is
\* not specified
Orders(seq) ==
    { [i \in 1..Len(seq) |-> seq[f[i]]] :
        f \in { g \in [1..Len(seq) -> 1..Len(seq)] :
                  \A i, j \in 1..Len(seq) : g[i] = g[j] => i = j } }

BuildCache ==
    /\ pc = "cache"
    /\ \E resolved \in SUBSET UniqueDirs :
          /\ round = 2 =>
                \A dir \in UniqueDirs :
                    dir \in DOMAIN packageCache =>
                        (dir \in resolved <=> packageCache[dir] # dir)
          /\ packageCache' = [dir \in UniqueDirs |->
                                 IF dir \in resolved THEN ImportDir(dir) ELSE dir]
    /\ imported' \in Orders(ImportArgs(profiles))
    /\ idx' = 1 /\ applied' = <<>>
    /\ pc' = "exclude"
    /\ UNCHANGED <<scanVars, envVars, round, exit, errMsg, patternMatcher, collectVars,
                   input, profiles, outVars>>

ignoreMap == buildIgnoreCoverageMap(ignoreCoverages)

\* ExclusionFor without the `continue` after a pattern match: the comments'
\* instructions follow the PatternIgnore
ExclusionForNoContinue(profile) ==
    LET file == resolveFileWithCache(profile.FileName, packageCache)
        m == IF ~patternMatcher.nil THEN MatchesFile(patternMatcher, file)
             ELSE [matches |-> FALSE, matchedBy |-> [rule |-> "", index |-> 0]]
        fromPattern == IF ~patternMatcher.nil /\ m.matches
                       THEN <<PatternIgnoreInstr(m.matchedBy)>> ELSE <<>>
        fromComments == IF file \in DOMAIN ignoreMap
                        THEN ignoreMap[file].Instructions ELSE <<>>
    IN  [by |-> IF fromPattern # <<>> THEN "pattern"
                ELSE IF fromComments # <<>> THEN "comment" ELSE "none",
         instructions |-> fromPattern \o fromComments]

\* what one iteration of the exclusion loop applies to a profile: the
\* instructions, and whether a pattern or the comments gave them
ExclusionFor(profile) ==
    LET file == resolveFileWithCache(profile.FileName, packageCache)
        m == IF ~patternMatcher.nil THEN MatchesFile(patternMatcher, file)
             ELSE [matches |-> FALSE, matchedBy |-> [rule |-> "", index |-> 0]]
    IN  IF ~patternMatcher.nil /\ m.matches
        THEN [by |-> "pattern", instructions |-> <<PatternIgnoreInstr(m.matchedBy)>>]
        ELSE IF file \in DOMAIN ignoreMap
        THEN [by |-> "comment", instructions |-> ignoreMap[file].Instructions]
        ELSE [by |-> "none", instructions |-> <<>>]

ExclusionStep ==
    /\ pc = "exclude" /\ idx <= Len(profiles)
    /\ LET e == ExclusionFor(profiles[idx]) IN
          /\ profiles' = [profiles EXCEPT ![idx] =
                            updateProfileFromIgnoreCoverages(@, e.instructions)]
          /\ applied' = applied \o
                [i \in 1..Len(e.instructions) |->
                    [FileName |-> profiles[idx].FileName, by |-> e.by,
                     instruction |-> e.instructions[i]]]
    /\ idx' = idx + 1
    /\ UNCHANGED <<scanVars, envVars, pc, round, exit, errMsg, patternMatcher, collectVars,
                   input, packageCache, imported, outVars>>

\* os.Create(output)
CreateOutput ==
    /\ pc = "exclude" /\ idx > Len(profiles)
    /\ \/ /\ out' = File(<<>>) /\ pc' = "write"
          /\ UNCHANGED <<exit, errMsg>>
       \/ /\ exit' = "error" /\ pc' = "exit" /\ errMsg' = "create"
          /\ UNCHANGED out
    /\ UNCHANGED <<scanVars, envVars, round, patternMatcher, collectVars,
                   reportVars, writeErrs>>

\* writeProfiles(profiles, outputFile), then `return nil`.  profiles[0] of an
\* empty report is an index out of range.  Each Write either writes its line
\* or returns an error, which writeProfiles drops (at most MaxWriteErrs do).
WriteProfiles ==
    /\ pc = "write"
    /\ IF profiles = <<>>
       THEN /\ exit' = "panic"
            /\ UNCHANGED outVars
       ELSE \E failed \in SUBSET (1..Len(WriteCalls(profiles))) :
               /\ Cardinality(failed) <= MaxWriteErrs
               /\ out' = File(Written(WriteCalls(profiles), 1, failed))
               /\ writeErrs' = Cardinality(failed)
               /\ exit' = "ok"
    /\ pc' = "exit"
    /\ UNCHANGED <<scanVars, envVars, round, errMsg, patternMatcher, collectVars, reportVars>>

\* the tool run again on the report it wrote, same tree, same flags
SecondRun ==
    /\ pc = "exit" /\ exit = "ok" /\ round = 1 /\ writeErrs = 0
    /\ round' = 2 /\ pc' = "args" /\ exit' = "running"
    /\ patternMatcher' = NilMatcher
    /\ ignoreCoverages' = <<>>
    /\ input' = <<>> /\ profiles' = <<>> /\ idx' = 0 /\ applied' = <<>>
    /\ imported' = <<>>
    /\ UNCHANGED <<scanVars, envVars, errMsg, jobs, jobsClosed, sent, workers,
                   pending, taken, results, resultsClosed, packageCache, outVars>>

Next ==
    \/ ParseArgs
    \/ BuildMatcher
    \/ Walk
    \/ SendJob
    \/ CloseJobs
    \/ \E w \in 1..NumWorkers : Worker(w)
    \/ \E w \in 1..NumWorkers : WorkerSend(w)
    \/ \E w \in 1..NumWorkers : WorkerExit(w)
    \/ CloseResults
    \/ Collect
    \/ CollectEnd
    \/ Parse
    \/ BuildCache
    \/ ExclusionStep
    \/ CreateOutput
    \/ WriteProfiles
    \/ SecondRun

Spec == Init /\ [][Next]_vars

(***************************************************************************)
(* SpecCollect: readIgnoreCoverageFromSourceDir alone, on a tree of none,  *)
(* one or both of the files: main sending the jobs, closing the channel    *)
(* and then reading results, NumWorkers workers, and the goroutine that    *)
(* closes results, in every interleaving.  SpecCollectFair adds that a     *)
(* goroutine which can take a step is scheduled at some time.              *)
(***************************************************************************)
\* a.go: one line, or a marker and the statement after it, or a file comment
\* and an unknown keyword
CollectTextsA ==
    TreeTextsB
    \cup { << <<"//", "coverage:ignore">>, <<"sp", "code">> >>,
           << <<"//", "coverage:ignore", "sp", "file">>,
              <<"//", "coverage:ignore", "sp", "foo">> >> }

CollectTrees ==
    UNION { { t \in [D -> { File(x) : x \in CollectTextsA } \cup {NoFile}] :
                PathB \in D => t[PathB] \in { File(x) : x \in TreeTextsB } \cup {NoFile} } :
            D \in SUBSET TreePaths }

InitCollect ==
    /\ ScanIdle
    /\ tree \in CollectTrees
    /\ flags = [globs |-> <<>>, regexes |-> <<>>, ignoreEmpty |-> FALSE]
    /\ pc = "walk" /\ round = 1 /\ exit = "running" /\ errMsg = ""
    /\ patternMatcher = NilMatcher
    /\ NoPool /\ ignoreCoverages = <<>>
    /\ input = <<>> /\ profiles = <<>> /\ packageCache = <<>> /\ idx = 0
    /\ imported = <<>>
    /\ applied = <<>> /\ out = NoFile /\ writeErrs = 0

NextCollect ==
    \/ Walk
    \/ SendJob
    \/ CloseJobs
    \/ \E w \in 1..NumWorkers : Worker(w)
    \/ \E w \in 1..NumWorkers : WorkerSend(w)
    \/ \E w \in 1..NumWorkers : WorkerExit(w)
    \/ CloseResults
    \/ Collect
    \/ CollectEnd

SpecCollect == InitCollect /\ [][NextCollect]_vars

SpecCollectFair ==
    /\ SpecCollect
    /\ WF_vars(Walk) /\ WF_vars(SendJob) /\ WF_vars(CloseJobs)
    /\ \A w \in 1..NumWorkers :
          WF_vars(Worker(w)) /\ WF_vars(WorkerSend(w)) /\ WF_vars(WorkerExit(w))
    /\ WF_vars(CloseResults) /\ WF_vars(Collect) /\ WF_vars(CollectEnd)

(***************************************************************************)
(* SpecCache: buildPackagePathCache and the exclusion loop on a report of  *)
(* any of a.go and b.go, of package m/pkg, and c.go, of package m/lib,     *)
(* with no pattern and no instruction from comments.                       *)
(***************************************************************************)
NameC == <<"m", "lib", "c.go">>

\* cover.ParseProfiles returns the profiles sorted by file name
CacheReports ==
    { SelectSeq(<<a, b, c>>, LAMBDA p : p.FileName \in names) :
        a \in { Profile(NameC, <<BlockP1(n)>>) : n \in Counts },
        b \in { Profile(NameA, <<BlockP1(n)>>) : n \in Counts },
        c \in { Profile(NameB, <<BlockP1(n)>>) : n \in Counts },
        names \in SUBSET {NameA, NameB, NameC} }

InitCache ==
    /\ ScanIdle
    /\ tree = <<>>
    /\ flags = [globs |-> <<>>, regexes |-> <<>>, ignoreEmpty |-> FALSE]
    /\ pc = "cache" /\ round = 1 /\ exit = "running" /\ errMsg = ""
    /\ patternMatcher = NilMatcher
    /\ NoPool /\ ignoreCoverages = <<>>
    /\ input \in CacheReports /\ profiles = input
    /\ packageCache = <<>> /\ imported = <<>> /\ idx = 0
    /\ applied = <<>> /\ out = NoFile /\ writeErrs = 0

NextCache == BuildCache \/ ExclusionStep

SpecCache == InitCache /\ [][NextCache]_vars

(***************************************************************************)
(* SpecMatch: one iteration of the exclusion loop, on a report of one      *)
(* profile, with a pattern matcher of up to MaxPatterns globs and          *)
(* MaxPatterns regexes and no instruction from comments.  The file of the  *)
(* profile resolves to its absolute path, or (build.Import failed) stays   *)
(* the import path.                                                        *)
(***************************************************************************)
MaxPatterns == 2

\* pkg/* holds the relative path only, /r/pkg/* the absolute path only,
\* **/b.go both
MatchGlobs ==
    { Glob(<<"pkg", "*">>), Glob(<<"/", "r", "pkg", "*">>),
      Glob(<<"**", "b.go">>), Empty }
MatchRegexes == { Regex("pkg"), Regex("r"), Regex("m") }

InitMatch ==
    /\ ScanIdle
    /\ tree = <<>>
    /\ \E g \in SeqsUpTo(MatchGlobs, MaxPatterns),
          x \in SeqsUpTo(MatchRegexes, MaxPatterns) :
          /\ flags = [globs |-> g, regexes |-> x, ignoreEmpty |-> FALSE]
          /\ patternMatcher = buildPatternMatcher(g, x, Root).matcher
    /\ pc = "exclude" /\ round = 1 /\ exit = "running" /\ errMsg = ""
    /\ NoPool /\ ignoreCoverages = <<>>
    /\ \E name \in {NameA, NameB} :
          LET p == Profile(name, <<BlockP1(0)>>)
              dir == SplitDir(name)
          IN  /\ input = <<p>> /\ profiles = <<p>>
              /\ packageCache \in { [d \in {dir} |-> ImportDir(dir)],
                                    [d \in {dir} |-> dir] }
              /\ imported = <<dir>>
    /\ idx = 1 /\ applied = <<>>
    /\ out = NoFile /\ writeErrs = 0

SpecMatch == InitMatch /\ [][ExclusionStep]_vars

(***************************************************************************)
(* SpecApply: instructions applied, one after another, to one profile of   *)
(* at most MaxBlocks blocks.  profiles holds the profile, input what it    *)
(* was at first, applied the instruction applied last.                     *)
(***************************************************************************)
MaxBlocks == 2

ApplyLines == {1, 2}
\* columns: the first two, and the last the position encoding has room for
ApplyCols == {1, 2, 99999}
ApplyCounts == {0, 2}

\* start <= end, line first, as the report grammar has it
ApplyBlocks ==
    { b \in [StartLine : ApplyLines, StartCol : ApplyCols,
             EndLine : ApplyLines, EndCol : ApplyCols,
             NumStmt : {1}, Count : ApplyCounts] :
        \/ b.StartLine < b.EndLine
        \/ b.StartLine = b.EndLine /\ b.StartCol <= b.EndCol }

\* cover.ParseProfiles leaves a profile's blocks sorted by start, and no two
\* with the same range
BlockBefore(a, b) ==
    \/ a.StartLine < b.StartLine
    \/ a.StartLine = b.StartLine /\ a.StartCol < b.StartCol
    \/ /\ a.StartLine = b.StartLine /\ a.StartCol = b.StartCol
       /\ \/ a.EndLine < b.EndLine
          \/ a.EndLine = b.EndLine /\ a.EndCol < b.EndCol

ApplyBlockLists ==
    { bs \in SeqsUpTo(ApplyBlocks, MaxBlocks) :
        /\ bs # <<>>
        /\ \A i \in 1..(Len(bs) - 1) : BlockBefore(bs[i], bs[i + 1]) }

InitApply ==
    /\ ScanIdle
    /\ tree = <<>> /\ flags = <<>>
    /\ pc = "apply" /\ round = 0 /\ exit = "running" /\ errMsg = ""
    /\ patternMatcher = NilMatcher
    /\ NoPool /\ ignoreCoverages = <<>>
    /\ \E bs \in ApplyBlockLists :
          /\ input = <<Profile(NameA, bs)>>
          /\ profiles = <<Profile(NameA, bs)>>
    /\ packageCache = <<>> /\ imported = <<>> /\ idx = 0 /\ applied = <<>>
    /\ out = NoFile /\ writeErrs = 0

Apply(instruction) ==
    /\ pc = "apply"
    /\ profiles' = <<UpdateProfile(instruction, profiles[1])>>
    /\ applied' = <<[FileName |-> profiles[1].FileName, by |-> "",
                     instruction |-> instruction]>>
    /\ UNCHANGED <<scanVars, envVars, pc, round, exit, errMsg, patternMatcher,
                   collectVars, input, packageCache, imported, idx, outVars>>

ApplyIgnoreBlock ==
    \E l \in ApplyLines, c \in ApplyCols : Apply(IgnoreBlockInstr(l, c))

ApplyIgnoreFile == Apply(IgnoreFileInstr)

ApplyPatternIgnore ==
    Apply(PatternIgnoreInstr([rule |-> "glob pattern", index |-> 1]))

NextApply == ApplyIgnoreBlock \/ ApplyIgnoreFile \/ ApplyPatternIgnore

SpecApply == InitApply /\ [][NextApply]_vars

(***************************************************************************)
(* The annotation grammar as the specification words it, used to state     *)
(* the scanner's claims: an ignore comment is `//coverage:ignore` or       *)
(* `// coverage:ignore` at the end of the line, bare (kw = "") or followed *)
(* by one space and the keyword kw.                                        *)
(***************************************************************************)
IgnoreComment(line, kw) ==
    LET tail == IF kw = "" THEN <<>> ELSE <<"sp", kw>> IN
    \E p \in 0..Len(line) :
        SubSeq(line, p + 1, Len(line)) \in
            { <<"//", "coverage:ignore">> \o tail,
              <<"//", "sp", "coverage:ignore">> \o tail }

BareComment(line) == IgnoreComment(line, "")
FileComment(line) == IgnoreComment(line, "file")
OtherKeywordComment(line) ==
    \E kw \in LowerWords \ {"file"} : IgnoreComment(line, kw)
UnknownKeywordComment(line) ==
    \E kw \in LowerWords \ {"file", "block"} : IgnoreComment(line, kw)
\* a line that sets the pending marker: bare, or with the keyword `block`
MarkerComment(line) == BareComment(line) \/ IgnoreComment(line, "block")
InstructionComment(line) == MarkerComment(line) \/ FileComment(line)

Range(seq) == { seq[i] : i \in 1..Len(seq) }
CountKind(seq, k) == Cardinality({ i \in 1..Len(seq) : seq[i].kind = k })

\* the lines the loop has gone past
Scanned == 1..(scanner.lineNumber - 1)

(* C7 (as stated): a comment line whose keyword is anything but `file` makes
   the scan fail: the loop never goes past such a line and never returns
   successfully from a file that has one. *)
C7_AnyOtherKeywordFails ==
    \A i \in 1..Len(srcLines) :
        OtherKeywordComment(srcLines[i]) =>
            /\ i \notin Scanned
            /\ scanner.ret # "ok"

(* C7 (amended): bare comments and comments with the keyword `block` set the
   pending marker, each `file` comment appends one IgnoreFile, and a comment
   with any other lowercase keyword ends the scan with an error naming that
   keyword and its line, without an instruction list. *)
C7_KeywordClassification ==
    /\ \A i \in 1..Len(srcLines) :
          UnknownKeywordComment(srcLines[i]) =>
              /\ i \notin Scanned
              /\ scanner.ret # "ok"
    /\ scanner.ret = "err" /\ scanner.errKw # "" =>
          /\ scanner.errLine = scanner.lineNumber
          /\ IgnoreComment(srcLines[scanner.errLine], scanner.errKw)
          /\ scanner.errKw \notin {"file", "block"}
          /\ scanner.instructions = <<>>
    /\ scanner.ret # "err" =>
          /\ CountKind(scanner.instructions, "IgnoreFile")
                = Cardinality({ i \in Scanned : FileComment(srcLines[i]) })
          /\ \A i \in Scanned :
                /\ i = scanner.lineNumber - 1
                /\ MarkerComment(srcLines[i])
                => scanner.pendingBlockInstruction = InstructionBlock

\* a `block` comment, a `file` comment and an indented statement, scanned to
\* the end: the `block` comment's marker gave the statement its anchor
C7_Witness ==
    /\ scanner.ret = "ok"
    /\ Len(srcLines) = 3
    /\ IgnoreComment(srcLines[1], "block")
    /\ FileComment(srcLines[2])
    /\ scanner.instructions = <<IgnoreFileInstr, IgnoreBlockInstr(3, 2)>>

\* the anchor the scanner gives line m
AnchorAt(m) == IgnoreBlockInstr(m, LeadingSpace(srcLines[m]) + 1)

(* C8 (as stated): once the line after a bare comment has been scanned, an
   IgnoreBlock anchored at that line (column 1 + its leading white space) has
   been emitted, whatever that line carries. *)
C8_AnchorAtNextLine ==
    scanner.ret # "err" =>
        \A n \in Scanned :
            BareComment(srcLines[n]) /\ n + 1 \in Scanned
            => AnchorAt(n + 1) \in Range(scanner.instructions)

\* line m resolves a marker: it carries no instruction comment, and a marker
\* comment precedes it with nothing but instruction comments in between
ResolvesMarker(m) ==
    /\ ~InstructionComment(srcLines[m])
    /\ \E n \in 1..(m - 1) :
          /\ MarkerComment(srcLines[n])
          /\ \A k \in (n + 1)..(m - 1) : InstructionComment(srcLines[k])

(* C8 (amended): the IgnoreBlock of a bare comment is emitted at the first
   later line that carries no ignore-instruction comment, anchored at that
   line with column 1 + its leading white space; the marker stays pending
   over the instruction comments in between, and is cleared by that line. *)
C8_AnchorAtNextPlainLine ==
    scanner.ret # "err" =>
        /\ { ins \in Range(scanner.instructions) : ins.kind = "IgnoreBlock" }
              = { AnchorAt(m) : m \in { k \in Scanned : ResolvesMarker(k) } }
        /\ CountKind(scanner.instructions, "IgnoreBlock")
              = Cardinality({ k \in Scanned : ResolvesMarker(k) })
        /\ scanner.pendingBlockInstruction # ""
              <=> \E n \in Scanned :
                     /\ MarkerComment(srcLines[n])
                     /\ \A k \in Scanned : k > n => InstructionComment(srcLines[k])

\* bare comment, then a `file` comment, then an indented statement: the anchor
\* is on line 3, column 3
C8_Witness ==
    /\ scanner.ret = "ok"
    /\ Len(srcLines) = 3
    /\ BareComment(srcLines[1])
    /\ FileComment(srcLines[2])
    /\ srcLines[3] = <<"tab", "sp", "code">>
    /\ scanner.instructions = <<IgnoreFileInstr, IgnoreBlockInstr(3, 3)>>
    /\ scanner.pendingBlockInstruction = ""

(***************************************************************************)
(* The claims about a run (Spec).                                          *)
(***************************************************************************)
\* mark-as-covered, as the specification words it: a count of 0 becomes 1,
\* nothing else changes
MarkCovered(blocks) ==
    [i \in 1..Len(blocks) |->
        [StartLine |-> blocks[i].StartLine, StartCol |-> blocks[i].StartCol,
         EndLine |-> blocks[i].EndLine, EndCol |-> blocks[i].EndCol,
         NumStmt |-> blocks[i].NumStmt,
         Count |-> IF blocks[i].Count = 0 THEN 1 ELSE blocks[i].Count]]

\* the path entry i of the report resolves to
Resolved(i) == resolveFileWithCache(input[i].FileName, packageCache)

\* the exclusion loop has gone past entry i
Processed(i) ==
    /\ i \in 1..Len(profiles)
    /\ pc # "cache"
    /\ pc = "exclude" => idx > i

\* the source file at path exists, can be read, and has a line that is ...
HasLine(path, P(_)) ==
    /\ path \in TreePaths
    /\ tree[path].ok
    /\ \E k \in 1..Len(tree[path].lines) : P(tree[path].lines[k])

AnyIgnoreComment(line) == \E kw \in LowerWords \cup {""} : IgnoreComment(line, kw)

\* the instructions applied to the entry of file name `name`
AppliedTo(name) ==
    SelectSeq(applied, LAMBDA a : a.FileName = name)

(* C1 (as stated): with no pattern set configured, every entry that resolves
   to a source file with a `//coverage:ignore file` comment on any line comes
   out of the exclusion loop with each count of 0 set to 1 and nothing else
   changed. *)
C1_FileCommentCoversEveryBlock ==
    \A i \in 1..Len(profiles) :
        /\ Processed(i)
        /\ patternMatcher.nil
        /\ HasLine(Resolved(i), FileComment)
        => profiles[i].Blocks = MarkCovered(input[i].Blocks)

(* C3: an entry whose resolved path the pattern set matches, and whose source
   file carries ignore comments, comes out of the exclusion loop as pattern-only
   exclusion leaves it, and the one instruction applied to it is the
   PatternIgnore: none of the comments' instructions is. *)
C3_PatternTakesPrecedence ==
    \A i \in 1..Len(profiles) :
        /\ Processed(i)
        /\ ~patternMatcher.nil
        /\ MatchesFile(patternMatcher, Resolved(i)).matches
        /\ HasLine(Resolved(i), AnyIgnoreComment)
        => /\ profiles[i].Blocks = MarkCovered(input[i].Blocks)
           /\ Len(AppliedTo(input[i].FileName)) = 1
           /\ AppliedTo(input[i].FileName)[1].instruction.kind = "PatternIgnore"

\* a.go is matched by the glob, its comments gave the collector instructions,
\* and one of its blocks went from 0 to 1
C3_Witness ==
    \E i \in 1..Len(profiles) :
        /\ Processed(i)
        /\ ~patternMatcher.nil
        /\ MatchesFile(patternMatcher, Resolved(i)).matches
        /\ Resolved(i) \in DOMAIN ignoreMap
        /\ \E k \in 1..Len(ignoreMap[Resolved(i)].Instructions) :
              ignoreMap[Resolved(i)].Instructions[k].kind = "IgnoreBlock"
        /\ \E b \in 1..Len(input[i].Blocks) :
              input[i].Blocks[b].Count = 0 /\ profiles[i].Blocks[b].Count = 1

(* C4: the second run, on the report the first run wrote, with the same tree
   and the same flags, changes no block, and the report it writes parses to
   its input. *)
C4_SecondRunChangesNothing ==
    round = 2 =>
        /\ profiles = input
        /\ pc = "exit" /\ exit = "ok" /\ writeErrs = 0
           => ParseProfiles(out.lines) = [err |-> FALSE, profiles |-> input]

\* a second run that applied instructions again, to blocks the first run had
\* set to 1, and wrote its report
C4_Witness ==
    /\ round = 2 /\ pc = "exit" /\ exit = "ok" /\ writeErrs = 0
    /\ \E k \in 1..Len(applied) : applied[k].instruction.kind = "IgnoreBlock"
    /\ \E k \in 1..Len(applied) : applied[k].instruction.kind = "IgnoreFile"
    /\ \E i \in 1..Len(input) : \E b \in 1..Len(input[i].Blocks) :
          input[i].Blocks[b].Count = 1

ReportMode == "count"

(* C5 (as stated): with no pattern set configured and no entry resolving to a
   file with instructions, a run that got to write its report (every write
   having succeeded) completes, and the file holds the header line and then
   the block lines of the input report, in order; also for a report with no
   entry. *)
C5_RoundTrip ==
    /\ pc = "exit" /\ exit # "error" /\ writeErrs = 0
    /\ patternMatcher.nil
    /\ \A i \in 1..Len(input) : Resolved(i) \notin DOMAIN ignoreMap
    => /\ exit = "ok"
       /\ out = File(<<HeaderLine(ReportMode)>> \o ProfileLines(input))

(* C6 (as stated): when a source file under the root has an ignore comment
   with an unrecognized keyword, the run ends with an error: it never gets
   past the collection of the instructions, and never exits successfully. *)
C6_UnknownKeywordAborts ==
    (\E path \in TreePaths : HasLine(path, UnknownKeywordComment))
    => /\ pc \notin {"parse", "cache", "exclude", "write"}
       /\ exit # "ok"

(* C9 (as stated): a run that exits successfully has written the complete
   mutated report: the header line and every block line. *)
C9_SuccessMeansCompleteReport ==
    pc = "exit" /\ exit = "ok"
    => out = File(WriteCalls(profiles))

\* what the scan of a readable file gives
ScanOf(path) == readInstructionsFromSourceFile(tree[path].lines)
Contributes(path) ==
    /\ tree[path].ok
    /\ ScanOf(path).ret = "ok"
    /\ ScanOf(path).instructions # <<>>

(* C10: with a source file that cannot be read, the collection still ends
   without an error; the mapping it gives holds no entry for that file and,
   for every other file, exactly the instructions of its scan; and these are
   applied to the report's entries as they are when the file is not there. *)
C10_UnreadableFileIsSkipped ==
    (\E path \in TreePaths : ~tree[path].ok)
    => /\ pc = "collect" => exit = "running"
       /\ pc \in {"parse", "cache", "exclude", "write"} =>
             /\ exit = "running"
             /\ DOMAIN ignoreMap = { path \in TreePaths : Contributes(path) }
             /\ \A path \in DOMAIN ignoreMap :
                   ignoreMap[path].Instructions = ScanOf(path).instructions
             /\ Len(ignoreCoverages) = Cardinality(DOMAIN ignoreMap)
       /\ \A i \in 1..Len(profiles) :
             /\ Processed(i)
             /\ patternMatcher.nil \/ ~MatchesFile(patternMatcher, Resolved(i)).matches
             => profiles[i] =
                  IF Resolved(i) \in TreePaths /\ Contributes(Resolved(i))
                  THEN updateProfileFromIgnoreCoverages(
                           input[i], ScanOf(Resolved(i)).instructions)
                  ELSE input[i]

\* a.go cannot be read, b.go has a `file` comment, and the run wrote a report
\* in which b.go's block went from 0 to 1 and a.go's blocks are as they were
C10_Witness ==
    /\ pc = "exit" /\ exit = "ok" /\ round = 1
    /\ ~tree[PathA].ok
    /\ HasLine(PathB, FileComment)
    /\ Len(profiles) = 2
    /\ profiles[1] = input[1]
    /\ input[1].Blocks[1].Count = 0
    /\ input[2].Blocks[1].Count = 0
    /\ profiles[2].Blocks[1].Count = 1

(***************************************************************************)
(* The claims about an instruction applied to a profile (SpecApply).       *)
(***************************************************************************)
\* the position encoding, and a block's range holding an anchor under it
Encoded(line, col) == line * 100000 + col
Holds(block, ig) ==
    /\ Encoded(block.StartLine, block.StartCol) <= Encoded(ig.Line, ig.Col)
    /\ Encoded(ig.Line, ig.Col) < Encoded(block.EndLine, block.EndCol)

(* C2: applying IgnoreBlock{line, col} sets the count of every block whose
   range holds the anchor, start <= anchor < end under the position encoding,
   from 0 to 1, leaves such a block with a count above 0 as it is, and leaves
   every other block as it is. *)
C2_IgnoreBlockMarksHoldingBlocks ==
    [][ /\ applied' # <<>>
        /\ applied'[1].instruction.kind = "IgnoreBlock"
        /\ profiles' # profiles \/ applied' # applied
        => LET ig == applied'[1].instruction
               old == profiles[1].Blocks
               new == profiles'[1].Blocks
           IN  /\ Len(new) = Len(old)
               /\ profiles'[1].FileName = profiles[1].FileName
               /\ \A i \in 1..Len(old) :
                     new[i] = IF Holds(old[i], ig) /\ old[i].Count = 0
                              THEN [old[i] EXCEPT !.Count = 1]
                              ELSE old[i]
      ]_vars

\* IgnoreBlock{2, 1} was applied to a block from 1.2 to 2.2, now counted 1,
\* and a block from 2.2 to 2.2, still counted 0
C2_Witness ==
    /\ pc = "apply"
    /\ applied = <<[FileName |-> NameA, by |-> "",
                    instruction |-> IgnoreBlockInstr(2, 1)]>>
    /\ Len(profiles[1].Blocks) = 2
    /\ input[1].Blocks[1] = [StartLine |-> 1, StartCol |-> 2, EndLine |-> 2,
                             EndCol |-> 2, NumStmt |-> 1, Count |-> 0]
    /\ profiles[1].Blocks[1] = [input[1].Blocks[1] EXCEPT !.Count = 1]
    /\ input[1].Blocks[2] = [StartLine |-> 2, StartCol |-> 2, EndLine |-> 2,
                             EndCol |-> 2, NumStmt |-> 1, Count |-> 0]
    /\ profiles[1].Blocks[2] = input[1].Blocks[2]

(* C11: with --ignore-empty on the command line the run writes a report in
   which every block of the input with 0 statements and count 0 is covered
   (count at least 1). *)
C11_IgnoreEmptyCoversEmptyBlocks ==
    (round = 1 /\ flags.ignoreEmpty /\ pc = "exit") =>
        /\ exit = "ok" /\ out.ok
        /\ LET r == ParseProfiles(out.lines) IN
              /\ ~r.err
              /\ \A i \in 1..Len(r.profiles) :
                    \A j \in 1..Len(r.profiles[i].Blocks) :
                        r.profiles[i].Blocks[j].NumStmt = 0 =>
                            r.profiles[i].Blocks[j].Count >= 1

(***************************************************************************)
(* The claims about the pattern matcher (SpecMatch).                       *)
(***************************************************************************)
\* one test of a rule against one form of the path
MatchTest(rule, i, form) == [rule |-> rule, index |-> i, form |-> form]

TestHits(pm, t, relPath, absolutePath) ==
    LET path == IF t.form = "relative" THEN relPath ELSE absolutePath IN
    IF t.rule = "glob pattern"
    THEN DoublestarMatch(pm.GlobPatterns[t.index].pattern, path)
    ELSE RegexMatchString(pm.RegexPatterns[t.index], path)

RECURSIVE FirstHit(_, _, _, _)
FirstHit(pm, tests, relPath, absolutePath) ==
    IF tests = <<>> THEN [matches |-> FALSE, matchedBy |-> [rule |-> "", index |-> 0]]
    ELSE IF TestHits(pm, Head(tests), relPath, absolutePath)
    THEN [matches |-> TRUE,
          matchedBy |-> [rule |-> Head(tests).rule, index |-> Head(tests).index]]
    ELSE FirstHit(pm, Tail(tests), relPath, absolutePath)

\* every glob on the relative path, every glob on the absolute path, every
\* regex on the absolute path, every regex on the relative path
FormByForm(pm) ==
    [i \in 1..Len(pm.GlobPatterns) |-> MatchTest("glob pattern", i, "relative")]
    \o [i \in 1..Len(pm.GlobPatterns) |-> MatchTest("glob pattern", i, "absolute")]
    \o [i \in 1..Len(pm.RegexPatterns) |-> MatchTest("regex pattern", i, "absolute")]
    \o [i \in 1..Len(pm.RegexPatterns) |-> MatchTest("regex pattern", i, "relative")]

\* each glob on the relative then the absolute path, then each regex on the
\* absolute then the relative path
RuleByRule(pm) ==
    [k \in 1..(2 * Len(pm.GlobPatterns)) |->
        MatchTest("glob pattern", (k + 1) \div 2,
                  IF k % 2 = 1 THEN "relative" ELSE "absolute")]
    \o [k \in 1..(2 * Len(pm.RegexPatterns)) |->
        MatchTest("regex pattern", (k + 1) \div 2,
                  IF k % 2 = 1 THEN "absolute" ELSE "relative")]

MatchedFile == resolveFileWithCache(input[1].FileName, packageCache)
MatchedRel ==
    LET rel == FilepathRel(patternMatcher.Root, MatchedFile) IN
    IF rel.ok THEN rel.path ELSE MatchedFile

\* what the exclusion loop logs for a match result
LoggedFor(hit) ==
    IF hit.matches
    THEN <<[FileName |-> input[1].FileName, by |-> "pattern",
            instruction |-> PatternIgnoreInstr(hit.matchedBy)]>>
    ELSE <<>>

\* C12 as stated: the rule reported is the first to match when every glob is
\* tested on the relative path, then every glob on the absolute path, then
\* every regex on the absolute path, then every regex on the relative path.
C12_FirstMatchFormByForm ==
    (pc = "exclude" /\ idx = 2 /\ Len(input) = 1 /\ ~patternMatcher.nil) =>
        applied = LoggedFor(FirstHit(patternMatcher, FormByForm(patternMatcher),
                                     MatchedRel, MatchedFile))

(* C12, amended: the rule reported is the first to match when each glob, in
   list order, is tested on the relative and then the absolute path, and
   then each regex, in list order, on the absolute and then the relative
   path; no rule is reported only when none matches either form of the
   path, and a matching glob is reported in preference to any regex. *)
C12_FirstMatchRuleByRule ==
    (pc = "exclude" /\ idx = 2 /\ Len(input) = 1 /\ ~patternMatcher.nil) =>
        LET hit == FirstHit(patternMatcher, RuleByRule(patternMatcher),
                            MatchedRel, MatchedFile)
            anyGlob == \E i \in 1..Len(patternMatcher.GlobPatterns) :
                          \/ DoublestarMatch(patternMatcher.GlobPatterns[i].pattern, MatchedRel)
                          \/ DoublestarMatch(patternMatcher.GlobPatterns[i].pattern, MatchedFile)
        IN  /\ applied = LoggedFor(hit)
            /\ anyGlob => /\ applied # <<>>
                          /\ applied[1].instruction.MatchedBy.rule = "glob pattern"

\* a.go resolved; the globs /r/pkg/* (absolute form only) and pkg/* (relative
\* form only), in this order, and a regex that matches too: the first glob
\* is reported
C12_Witness ==
    /\ pc = "exclude" /\ idx = 2 /\ Len(input) = 1
    /\ MatchedFile = PathA
    /\ patternMatcher.GlobPatterns =
          <<Glob(<<"/", "r", "pkg", "*">>), Glob(<<"pkg", "*">>)>>
    /\ patternMatcher.RegexPatterns = <<Regex("pkg")>>
    /\ applied = <<[FileName |-> NameA, by |-> "pattern",
                    instruction |-> PatternIgnoreInstr(
                        [rule |-> "glob pattern", index |-> 1])]>>

(***************************************************************************)
(* The scanner at the end of input (SpecScan).                             *)
(***************************************************************************)
(* C15: when the last line of a file is a bare ignore comment and the scan
   gets to it, the scan of that line and the return after it raise no error,
   emit no IgnoreBlock and leave the instructions emitted before as they
   are: the scan returns them, successfully. *)
C15_DanglingMarkerIsDropped ==
    [][ ( /\ srcLines # <<>>
          /\ BareComment(srcLines[Len(srcLines)])
          /\ scanner.ret = "scanning"
          /\ scanner.lineNumber >= Len(srcLines) )
        => /\ scanner'.instructions = scanner.instructions
           /\ scanner'.ret = IF scanner.lineNumber > Len(srcLines)
                             THEN "ok" ELSE "scanning"
      ]_vars

\* a file comment, then a statement, then a bare comment on the last line:
\* returned is the IgnoreFile alone, the marker still pending
C15_Witness ==
    /\ Len(srcLines) = 3
    /\ FileComment(srcLines[1])
    /\ srcLines[2] = <<"sp", "code">>
    /\ BareComment(srcLines[3])
    /\ scanner.ret = "ok"
    /\ scanner.pendingBlockInstruction # ""
    /\ scanner.instructions = <<IgnoreFileInstr>>

(***************************************************************************)
(* The claims about the collector's goroutines (SpecCollect).              *)
(***************************************************************************)
Occurrences(seq, x) == Cardinality({ i \in 1..Len(seq) : seq[i] = x })

RECURSIVE SumOver(_, _)
SumOver(S, f) ==
    IF S = {} THEN 0
    ELSE LET x == CHOOSE y \in S : TRUE IN f[x] + SumOver(S \ {x}, f)

PoolRuns == pc \in {"send", "collect"}

\* how often the workers, all together, have received path
TimesTaken(path) ==
    SumOver(1..NumWorkers, [w \in 1..NumWorkers |-> Occurrences(taken[w], path)])

\* every file of the walk is in one place: still to send, in the jobs
\* channel, or received by one worker, once
EveryFileInOnePlace ==
    \A path \in TreePaths :
        Occurrences(SubSeq(WalkDir(tree), sent + 1, Len(WalkDir(tree))), path)
          + Occurrences(jobs, path) + TimesTaken(path)
        = IF path \in DOMAIN tree THEN 1 ELSE 0

AllWorkersDone == \A w \in 1..NumWorkers : workers[w] = "done"

EveryFileTakenOnce ==
    \A path \in TreePaths : TimesTaken(path) = IF path \in DOMAIN tree THEN 1 ELSE 0

(* C13: in every interleaving each file of the walk is received from the
   jobs channel by one worker, once: none is lost, none received twice; and
   the results channel is closed, and the loop over results left, only when
   every worker has finished, with every file received. *)
C13_EachFileTakenOnceThenComplete ==
    [][ /\ PoolRuns' => /\ EveryFileInOnePlace'
                        /\ resultsClosed' => AllWorkersDone' /\ EveryFileTakenOnce'
        /\ (pc = "collect" /\ pc' = "parse") =>
              resultsClosed /\ AllWorkersDone /\ EveryFileTakenOnce
      ]_vars

\* both files walked, both received, the workers done and results closed
C13_Witness ==
    /\ pc = "collect" /\ resultsClosed
    /\ DOMAIN tree = TreePaths
    /\ AllWorkersDone
    /\ TimesTaken(PathA) = 1 /\ TimesTaken(PathB) = 1

\* the files of the walk whose scan succeeds with at least one instruction
Contributing ==
    { path \in DOMAIN tree :
        /\ tree[path].ok
        /\ readInstructionsFromSourceFile(tree[path].lines).ret = "ok"
        /\ readInstructionsFromSourceFile(tree[path].lines).instructions # <<>> }

(* C14: whatever the scheduling, the mapping built from what collect returns
   has one entry for each file of the walk whose scan succeeded with at
   least one instruction, under that file's path, with that file's
   instructions in order, and no other entry; collect returns one record
   for each such file. *)
C14_MappingIsAFunctionOfTheTree ==
    pc = "parse" =>
        /\ buildIgnoreCoverageMap(ignoreCoverages) =
              [path \in Contributing |->
                  [Filepath |-> path,
                   Instructions |->
                      readInstructionsFromSourceFile(tree[path].lines).instructions]]
        /\ Len(ignoreCoverages) = Cardinality(Contributing)

\* a.go has a file comment and a marker resolved on its second line, b.go an
\* unknown keyword: the mapping has a.go alone
C14_Witness ==
    /\ pc = "parse"
    /\ DOMAIN tree = TreePaths
    /\ tree[PathA] = File(<<<<"//", "coverage:ignore">>, <<"sp", "code">>>>)
    /\ tree[PathB] = File(<<<<"//", "coverage:ignore", "sp", "foo">>>>)
    /\ ignoreCoverages =
          <<[Filepath |-> PathA, Instructions |-> <<IgnoreBlockInstr(2, 2)>>]>>

(* C20 (SpecCollectFair): under fair scheduling the producer gets past its
   sends and the close of jobs, a worker at its send on results gets past
   it, results is closed once, when all workers have exited, and stays
   closed until the loop over results has ended, which it does: collect
   returns. *)
C20_CollectTerminates ==
    /\ (pc = "send") ~> (pc = "collect")
    /\ \A w \in 1..NumWorkers :
          (PoolRuns /\ workers[w] = "sending") ~> (~PoolRuns \/ workers[w] # "sending")
    /\ (pc = "send") ~> (pc = "parse")
    /\ [][ /\ (PoolRuns /\ ~resultsClosed /\ resultsClosed') => AllWorkersDone
           /\ (PoolRuns /\ resultsClosed) => (resultsClosed' \/ pc' = "parse")
         ]_vars

\* collect has returned the records of both files
C20_Witness ==
    /\ pc = "parse"
    /\ DOMAIN tree = TreePaths
    /\ Len(ignoreCoverages) = 2
    /\ workers = <<>> /\ ~resultsClosed

(***************************************************************************)
(* The claims about the package cache (SpecCache).                         *)
(***************************************************************************)
ReportDirs == { SplitDir(input[i].FileName) : i \in 1..Len(input) }

(* C16: build.Import is called once for each directory the report's file
   names have, however many entries share it, and for nothing else; the
   cache then has every such directory, with the directory build.Import
   found or, where it failed, the directory itself, the run goes on, and
   the lookup of every entry finds its directory in the cache. *)
C16_EachDirectoryResolvedOnce ==
    pc = "exclude" =>
        /\ \A dir \in ReportDirs : Occurrences(imported, dir) = 1
        /\ \A k \in 1..Len(imported) : imported[k] \in ReportDirs
        /\ DOMAIN packageCache = ReportDirs
        /\ \A dir \in ReportDirs : packageCache[dir] \in {dir, ImportDir(dir)}
        /\ exit = "running"
        /\ \A i \in 1..Len(input) :
              resolveFileWithCache(input[i].FileName, packageCache) =
                 Append(packageCache[SplitDir(input[i].FileName)],
                        SplitFile(input[i].FileName))

\* a.go and b.go share m/pkg, which did not resolve; c.go's m/lib did; the
\* loop has looked all three up
C16_Witness ==
    /\ pc = "exclude" /\ idx = 4 /\ Len(input) = 3
    /\ Len(imported) = 2
    /\ packageCache[<<"m", "pkg">>] = <<"m", "pkg">>
    /\ packageCache[<<"m", "lib">>] = <<"/", "r", "lib">>

(***************************************************************************)
(* The position encoding against a comparison of (line, column) pairs      *)
(* (SpecApply).                                                            *)
(***************************************************************************)
\* (l1, c1) before (l2, c2), line first, then column
PairLess(l1, c1, l2, c2) == l1 < l2 \/ (l1 = l2 /\ c1 < c2)
PairLessEq(l1, c1, l2, c2) == l1 < l2 \/ (l1 = l2 /\ c1 <= c2)

InsideByPairs(block, ig) ==
    /\ PairLessEq(block.StartLine, block.StartCol, ig.Line, ig.Col)
    /\ PairLess(ig.Line, ig.Col, block.EndLine, block.EndCol)

ColumnsInRange(block, ig) ==
    {block.StartCol, block.EndCol, ig.Col} \subseteq 1..99999

(* C17: with every column between 1 and 99,999, an IgnoreBlock marks a block
   of count 0 exactly when the anchor is at or after the block's start and
   before its end as (line, column) pairs compared line first, then column:
   what the comparison of the encoded integers decides is what the two-field
   comparison decides. *)
C17_EncodingAgreesWithPairs ==
    [][ /\ applied' # <<>>
        /\ applied'[1].instruction.kind = "IgnoreBlock"
        /\ profiles' # profiles \/ applied' # applied
        => LET ig == applied'[1].instruction
               old == profiles[1].Blocks
               new == profiles'[1].Blocks
           IN  \A i \in 1..Len(old) :
                  ColumnsInRange(old[i], ig) =>
                     /\ (InsideByPairs(old[i], ig) <=> Holds(old[i], ig))
                     /\ new[i].Count = IF InsideByPairs(old[i], ig) /\ old[i].Count = 0
                                       THEN 1 ELSE old[i].Count
      ]_vars

\* IgnoreBlock{1, 99999} was applied to a block from 1.2 to 2.1, now counted
\* 1, and a block from 2.1 to 2.2, still counted 0
C17_Witness ==
    /\ pc = "apply"
    /\ applied = <<[FileName |-> NameA, by |-> "",
                    instruction |-> IgnoreBlockInstr(1, 99999)]>>
    /\ Len(profiles[1].Blocks) = 2
    /\ input[1].Blocks[1] = [StartLine |-> 1, StartCol |-> 2, EndLine |-> 2,
                             EndCol |-> 1, NumStmt |-> 1, Count |-> 0]
    /\ profiles[1].Blocks[1].Count = 1
    /\ input[1].Blocks[2] = [StartLine |-> 2, StartCol |-> 1, EndLine |-> 2,
                             EndCol |-> 2, NumStmt |-> 1, Count |-> 0]
    /\ profiles[1].Blocks[2].Count = 0

(***************************************************************************)
(* What the instructions leave alone (SpecApply).                          *)
(***************************************************************************)
SameButCount(a, b) ==
    /\ a.StartLine = b.StartLine /\ a.StartCol = b.StartCol
    /\ a.EndLine = b.EndLine /\ a.EndCol = b.EndCol
    /\ a.NumStmt = b.NumStmt

(* C19: after any number of IgnoreBlock, IgnoreFile and PatternIgnore
   applications, in any order, the report has the entries of the input in
   the input's order, each with the input's blocks in the input's order, no
   field but the count differs, and each count is the input's or was 0 and
   is 1. *)
C19_OnlyCountsChangeFromZeroToOne ==
    /\ Len(profiles) = Len(input)
    /\ \A i \in 1..Len(input) :
          /\ profiles[i].FileName = input[i].FileName
          /\ profiles[i].Mode = input[i].Mode
          /\ Len(profiles[i].Blocks) = Len(input[i].Blocks)
          /\ \A j \in 1..Len(input[i].Blocks) :
                /\ SameButCount(profiles[i].Blocks[j], input[i].Blocks[j])
                /\ \/ profiles[i].Blocks[j].Count = input[i].Blocks[j].Count
                   \/ /\ input[i].Blocks[j].Count = 0
                      /\ profiles[i].Blocks[j].Count = 1

\* a PatternIgnore was applied last: the block that was uncovered is at 1,
\* the covered one as it was
C19_Witness ==
    /\ pc = "apply"
    /\ applied # <<>>
    /\ applied[1].instruction.kind = "PatternIgnore"
    /\ Len(input[1].Blocks) = 2
    /\ input[1].Blocks[1].Count = 0 /\ profiles[1].Blocks[1].Count = 1
    /\ input[1].Blocks[2].Count = 2 /\ profiles[1].Blocks[2].Count = 2

(***************************************************************************)
(* Fatal configuration errors (Spec).                                      *)
(***************************************************************************)
InvalidRegexGiven ==
    \E k \in 1..Len(flags.regexes) :
        ~flags.regexes[k].empty /\ ~flags.regexes[k].valid

(* C18: a run given a regex that does not compile, or a report that cannot
   be read or parsed, ends with an error, and from its start to its end no
   block of the report has been changed and the output file has been
   neither created nor truncated. *)
C18_ConfigurationErrorBeforeAnyMutation ==
    (round = 1 /\ (InvalidRegexGiven \/ errMsg = "parse")) =>
        /\ pc = "exit" => exit = "error"
        /\ profiles = <<>> /\ applied = <<>>
        /\ out = NoFile /\ writeErrs = 0

\* the run with the regex `(` has ended in the error of buildPatternMatcher
C18_Witness ==
    /\ round = 1 /\ pc = "exit" /\ exit = "error"
    /\ InvalidRegexGiven
    /\ errMsg = "error building pattern matcher"
    /\ \E path \in TreePaths : HasLine(path, FileComment)
    /\ out = NoFile

====
